---- MODULE Spec2Model ----
(***************************************************************************)
(* MOEA/D (pymoo/algorithms/moo/moead.py): neighbourhood construction,     *)
(* neighbourhood-restricted mating selection, ideal-point tracking and the  *)
(* replacement step, for the sequential engine (MOEAD) and the batched      *)
(* engine (ParallelMOEAD).                                                  *)
(*                                                                         *)
(* Indices are the source's: subproblems, population slots and reference   *)
(* directions are numbered 0..M-1.  A row of the neighbour table, a parent  *)
(* tuple, a permutation and a vector of objectives are sequences.           *)
(* An individual is represented by its objective vector F: the evaluator    *)
(* is a function of the decision vector, so two individuals with different  *)
(* F are different individuals, and a replacement always changes F (it      *)
(* needs a strictly smaller scalarized value).                              *)
(* Weights are integers (the evenly spaced directions i/(M-1) scaled by     *)
(* M-1), which changes no comparison of scalarized values.                  *)
(***************************************************************************)
EXTENDS Integers, Sequences, FiniteSets, TLC

\* ------------------------------------------------------------------ bounds
\* objective values are 0..MaxF
MaxF == 1
\* largest number of reference directions of the sequential engine's runs
MaxM == 3
\* largest number of reference directions of the batched engine's runs
MaxBatchM == 2
\* generations per run
MaxGen == 1
\* random() is drawn from {0/ProbDen, ..., (ProbDen-1)/ProbDen}, a subset of [0,1)
ProbDen == 2

\* ------------------------------------------------------------------ vectors
Min2(a, b) == IF a <= b THEN a ELSE b

Abs(a) == IF a < 0 THEN -a ELSE a

SetMin(S) == CHOOSE x \in S : \A y \in S : x <= y

SetMax(S) == CHOOSE x \in S : \A y \in S : x >= y

\* the objective vectors with n_obj coordinates in 0..hi
FSpace(n, hi) == [1..n -> 0..hi]

\* mutant: the ideal point is overwritten by the newest objective vector
VecLast(z, f) == f

\* np.min(np.vstack([z, f]), axis=0)
VecMin(z, f) == [j \in DOMAIN z |-> Min2(z[j], f[j])]

\* mutant: the objective vector of the first individual
ColFirst(p) == p[0]

\* np.min(pop.get("F"), axis=0) for a non-empty population
ColMin(p) ==
    LET n == Len(p[0])
    IN  [j \in 1..n |-> SetMin({p[i][j] : i \in DOMAIN p})]

\* all orderings of the finite set S, as sequences: np.random.permutation
Perms(S) ==
    LET n == Cardinality(S)
    IN  {s \in [1..n -> S] : \A a, b \in 1..n : s[a] = s[b] => a = b}

\* the sequences of n pairwise distinct elements of S
Arrangements(S, n) ==
    {s \in [1..n -> S] : \A a, b \in 1..n : s[a] = s[b] => a = b}

\* the set of entries of a sequence
Range(s) == {s[a] : a \in DOMAIN s}

\* ------------------------------------------------------------------ scalarization
\* Tchebicheff._do: max_j |F_j - z_j| * w_j
Tchebi(F, w, z) == SetMax({Abs(F[j] - z[j]) * w[j] : j \in DOMAIN F})

RECURSIVE SumTo(_, _, _)
SumTo(F, w, n) == IF n = 0 THEN 0 ELSE F[n] * w[n] + SumTo(F, w, n - 1)

\* WeightedSum._do: sum_j F_j * w_j (the ideal point is not used)
WeightedSum(F, w, z) == SumTo(F, w, Len(F))

\* the scalarizers with exact integer arithmetic; PBI takes Euclidean norms,
\* which are irrational, and the runs of the model use no PBI scalarizer
Exact == {"tchebi", "weighted-sum"}

\* self._decomposition.do(F, weights=w, ideal_point=z) for one (F, w) pair
DecompositionDo(d, F, w, z) ==
    IF d.val = "tchebi" THEN Tchebi(F, w, z) ELSE WeightedSum(F, w, z)

\* a decomposition option given by name, and a decomposition object
Name(n) == [kind |-> "str", val |-> n]

Instance(n) == [kind |-> "obj", val |-> n]

NoDecomposition == [kind |-> "none", val |-> "none"]

\* pymoo.factory.get_decomposition(name): the object of that name
get_decomposition(n) == Instance(n)

\* ------------------------------------------------------------------ neighbours
\* cdist(ref_dirs, ref_dirs)[i][j], squared: argsort reads only the order of
\* the distances, which squaring keeps
RECURSIVE SqSum(_, _, _)
SqSum(u, v, n) ==
    IF n = 0 THEN 0 ELSE (u[n] - v[n]) * (u[n] - v[n]) + SqSum(u, v, n - 1)

cdist(dirs, i, j) == SqSum(dirs[i], dirs[j], Len(dirs[i]))

\* np.argsort(row i, kind='quicksort'): every ordering of the indices by
\* non-decreasing distance; quicksort is not stable, so the order among equal
\* distances is any
ArgSort(dirs, i) ==
    {s \in Perms(DOMAIN dirs) :
        \A a \in 1..(Len(s) - 1) : cdist(dirs, i, s[a]) <= cdist(dirs, i, s[a + 1])}

\* MOEAD.__init__: self.n_neighbors = min(len(ref_dirs), n_neighbors)
ClampNeighbors(dirs, n) == Min2(Cardinality(DOMAIN dirs), n)

\* one row of argsort(cdist(ref_dirs, ref_dirs), axis=1)[:, :k]
NeighborRows(dirs, k, i) == {SubSeq(s, 1, k) : s \in ArgSort(dirs, i)}

\* the tables over rows 0..n-1 that the sort can produce
RECURSIVE TablesTo(_, _, _)
TablesTo(dirs, k, n) ==
    IF n = 0 THEN {<<>>}
    ELSE {[i \in 0..(n - 1) |-> IF i = n - 1 THEN r ELSE t[i]] :
            t \in TablesTo(dirs, k, n - 1), r \in NeighborRows(dirs, k, n - 1)}

\* MOEAD.__init__: argsort(cdist(ref_dirs, ref_dirs), axis=1)[:, :n_neighbors],
\* the set of tables the sort can produce
NeighborTables(dirs, k) == TablesTo(dirs, k, Cardinality(DOMAIN dirs))

\* m directions of an n-objective problem along the axes
UnitDirs(n, m) == [i \in 0..(m - 1) |-> [j \in 1..n |-> IF j = (i % n) + 1 THEN 1 ELSE 0]]

\* M evenly spaced directions of a 2-objective problem, scaled by M-1
EvenDirs(m) == [i \in 0..(m - 1) |-> <<i, (m - 1) - i>>]

\* ------------------------------------------------------------------ state
VARIABLES
    problem,               \* [n_obj, has_constraints, range]: range is the set of
                           \* objective vectors the evaluation can return
    engine,                \* "MOEAD" or "ParallelMOEAD"
    ref_dirs,              \* self.ref_dirs
    n_neighbors_arg,       \* the n_neighbors argument of __init__
    n_neighbors,           \* self.n_neighbors, clamped
    neighbors,             \* self.neighbors
    prob_neighbor_mating,  \* self.prob_neighbor_mating, in units of 1/ProbDen
    decomposition,         \* self.decomposition, the option
    n_parents,             \* self.mating.crossover.n_parents
    n_offsprings,          \* self.mating.crossover.n_offsprings
    mating,                \* the variation operator: "clone" or "vary"
    phase,                 \* lifecycle of the algorithm object
    pc,                    \* position inside _infill / _advance
    pop,                   \* self.pop, slot -> objective vector
    ideal,                 \* self.ideal
    _decomposition,        \* self._decomposition
    I,                     \* the permutation of the generation
    pos,                   \* position of the loop in I / in infills
    P,                     \* parent tuples returned by the selection
    branch,                \* history: per request of P, whether random() < prob
    off,                   \* the offspring of the current anchor
    infills,               \* the tagged batch of ParallelMOEAD
    n_gen,                 \* generations completed
    pop_gen,               \* history: the population when the generation began
    ideal_gen              \* history: the ideal point when the generation began

config == <<problem, engine, ref_dirs, n_neighbors_arg, n_neighbors, neighbors, prob_neighbor_mating,
            decomposition, n_parents, n_offsprings, mating>>

vars == <<problem, engine, ref_dirs, n_neighbors_arg, n_neighbors, neighbors, prob_neighbor_mating,
          decomposition, n_parents, n_offsprings, mating, phase, pc, pop, ideal,
          _decomposition, I, pos, P, branch, off, infills, n_gen, pop_gen, ideal_gen>>

\* len(pop)
PopLen == Cardinality(DOMAIN pop)

\* ------------------------------------------------------------------ selection
ValueError == [ok |-> FALSE, P |-> <<>>, nb |-> <<>>]

\* mutant: the entries are drawn with replacement
ChoiceRowRepeat(j, n_par) ==
    IF n_par > Len(neighbors[j]) THEN {ValueError}
    ELSE {[ok |-> TRUE, P |-> s, nb |-> TRUE] : s \in [1..n_par -> Range(neighbors[j])]}

\* np.random.choice(N[j], n_par, replace=False): n_par distinct entries of the
\* row, a ValueError when the row has fewer
ChoiceRow(j, n_par) ==
    IF n_par > Len(neighbors[j]) THEN {ValueError}
    ELSE {[ok |-> TRUE, P |-> s, nb |-> TRUE] :
            s \in Arrangements(Range(neighbors[j]), n_par)}

\* P[i] = np.random.permutation(len(pop))[:n_par]: the slice has
\* min(n_par, len(pop)) entries; a shorter slice is broadcast into the row when
\* it has one entry and is a ValueError otherwise
PermRow(n_par) ==
    IF n_par <= PopLen
    THEN {[ok |-> TRUE, P |-> s, nb |-> FALSE] : s \in Arrangements(DOMAIN pop, n_par)}
    ELSE IF PopLen = 1
         THEN {[ok |-> TRUE, P |-> [a \in 1..n_par |-> 0], nb |-> FALSE]}
         ELSE {ValueError}

\* one request: if np.random.random() < self.prob: ... else: ...
SelectRow(j, n_par) ==
    UNION {IF r < prob_neighbor_mating THEN ChoiceRow(j, n_par) ELSE PermRow(n_par) :
            r \in 0..(ProbDen - 1)}

\* the loop of _do over the first a requests of k; the first failing request ends it
RECURSIVE DoRows(_, _, _)
DoRows(k, n_par, a) ==
    IF a = 0 THEN {[ok |-> TRUE, P |-> <<>>, nb |-> <<>>]}
    ELSE UNION {IF ~prev.ok THEN {prev}
                ELSE {IF r.ok
                      THEN [ok |-> TRUE, P |-> Append(prev.P, r.P),
                            nb |-> Append(prev.nb, r.nb)]
                      ELSE ValueError :
                        r \in SelectRow(k[a], n_par)} :
                prev \in DoRows(k, n_par, a - 1)}

\* NeighborhoodSelection._do(pop, n_select, n_parents, k): the outcomes
_do(n_select, n_par, k) ==
    IF Len(k) # n_select THEN {ValueError} ELSE DoRows(k, n_par, Len(k))

\* ------------------------------------------------------------------ mating
\* self.mating.do(problem, pop, n, parents=Pm) followed by the evaluation:
\* n_offsprings offspring per parent tuple, in tuple order.  "clone": offspring
\* c of a tuple is a copy of its parent c (of the last parent when there are
\* fewer parents); "vary": crossover and mutation, any objective vector
MatingDo(Pm) ==
    LET n == Len(Pm) * n_offsprings
        tup(a) == ((a - 1) \div n_offsprings) + 1
        child(a) == ((a - 1) % n_offsprings) + 1
    IN  IF mating = "clone"
        THEN {[a \in 1..n |-> pop[Pm[tup(a)][Min2(child(a), n_parents)]]]}
        ELSE [1..n -> problem.range]

\* ------------------------------------------------------------------ replacement
\* mutant: the incumbents are read from the population as the generation began
FV_stale(n) == DecompositionDo(_decomposition, pop_gen[n], ref_dirs[n], ideal)

\* FV[n] and off_FV[n] of _replace for neighbour n
FV(n) == DecompositionDo(_decomposition, pop[n], ref_dirs[n], ideal)

off_FV(o, n) == DecompositionDo(_decomposition, o, ref_dirs[n], ideal)

\* mutant: the offspring also takes the slot on equal scalarized values
_replace_ties(i, o) ==
    [n \in DOMAIN pop |->
        IF n \in Range(neighbors[i]) /\ off_FV(o, n) <= FV(n) THEN o ELSE pop[n]]

\* mutant: the offspring is appended to the population instead of overwriting
_replace_grow(i, o) ==
    [n \in 0..PopLen |-> IF n = PopLen THEN o ELSE pop[n]]

\* mutant: the offspring is compared with every slot of the population
_replace_all(i, o) ==
    [n \in DOMAIN pop |-> IF off_FV(o, n) < FV(n) THEN o ELSE pop[n]]

\* MOEAD._replace(i, off): I = where(off_FV < FV); pop[N[I]] = off
_replace(i, o) ==
    [n \in DOMAIN pop |->
        IF n \in Range(neighbors[i]) /\ off_FV(o, n) < FV(n) THEN o ELSE pop[n]]

\* ------------------------------------------------------------------ construction
\* the state after MOEAD.__init__ / ParallelMOEAD.__init__
Construct(engines, dirsets, requests, probs, decomps, crossovers, matings, problems) ==
    /\ engine \in engines
    /\ problem \in problems
    /\ ref_dirs \in dirsets
    /\ n_neighbors_arg \in requests
    /\ n_neighbors = ClampNeighbors(ref_dirs, n_neighbors_arg)
    /\ neighbors \in NeighborTables(ref_dirs, n_neighbors)
    /\ prob_neighbor_mating \in probs
    /\ decomposition \in decomps
    /\ \E c \in crossovers : n_parents = c[1] /\ n_offsprings = c[2]
    /\ mating \in matings
    /\ phase = "constructed"
    /\ pc = "idle"
    /\ pop = <<>>
    /\ ideal = <<>>
    /\ _decomposition = NoDecomposition
    /\ I = <<>>
    /\ pos = 0
    /\ P = <<>>
    /\ branch = <<>>
    /\ off = <<>>
    /\ infills = <<>>
    /\ n_gen = 0
    /\ pop_gen = <<>>
    /\ ideal_gen = <<>>

\* ------------------------------------------------------------------ setup
\* mutant: the assertion is missing
_setup_unchecked ==
    /\ phase = "constructed"
    /\ phase' = "setup"
    /\ UNCHANGED <<config, pc, pop, ideal, _decomposition, I, pos, P, branch, off, infills,
                   n_gen, pop_gen, ideal_gen>>

\* MOEAD._setup: assert not problem.has_constraints()
_setup ==
    /\ phase = "constructed"
    /\ phase' = IF problem.has_constraints THEN "failed" ELSE "setup"
    /\ UNCHANGED <<config, pc, pop, ideal, _decomposition, I, pos, P, branch, off, infills,
                   n_gen, pop_gen, ideal_gen>>

\* the initialization of GeneticAlgorithm: pop_size = len(ref_dirs) individuals are
\* sampled and evaluated
Initialize ==
    /\ phase = "setup"
    /\ pop' \in [DOMAIN ref_dirs -> problem.range]
    /\ phase' = "initialized"
    /\ UNCHANGED <<config, pc, ideal, _decomposition, I, pos, P, branch, off, infills,
                   n_gen, pop_gen, ideal_gen>>

\* mutant: Tchebycheff only for fewer than 2 objectives
ResolveBelow(d, n_obj) ==
    IF d.kind = "str"
    THEN get_decomposition(IF d.val = "auto"
                           THEN (IF n_obj < 2 THEN "tchebi" ELSE "pbi")
                           ELSE d.val)
    ELSE d

\* the decomposition resolved by _post_initialize
Resolve(d, n_obj) ==
    IF d.kind = "str"
    THEN get_decomposition(IF d.val = "auto"
                           THEN (IF n_obj <= 2 THEN "tchebi" ELSE "pbi")
                           ELSE d.val)
    ELSE d

\* MOEAD._post_initialize
_post_initialize ==
    /\ phase = "initialized"
    /\ ideal' = ColMin(pop)
    /\ _decomposition' = Resolve(decomposition, problem.n_obj)
    /\ phase' = "running"
    /\ UNCHANGED <<config, pc, pop, I, pos, P, branch, off, infills, n_gen, pop_gen, ideal_gen>>

\* a generation may begin: the run goes on, and the scalarizer is one the model
\* computes exactly
MayAdvance ==
    /\ phase = "running"
    /\ pc = "idle"
    /\ n_gen < MaxGen
    /\ _decomposition.val \in Exact

\* ------------------------------------------------------------------ MOEAD._advance
\* for i in np.random.permutation(len(pop)):
SeqPermute ==
    /\ MayAdvance
    /\ engine = "MOEAD"
    /\ I' \in Perms(DOMAIN pop)
    /\ pos' = 1
    /\ pc' = "select"
    /\ pop_gen' = pop
    /\ ideal_gen' = ideal
    /\ UNCHANGED <<config, phase, pop, ideal, _decomposition, P, branch, off, infills,
                   n_gen>>

\* P = self.selection.do(pop, 1, n_parents, k=[i])
SeqSelect ==
    /\ phase = "running"
    /\ pc = "select"
    /\ \E r \in _do(1, n_parents, <<I[pos]>>) :
        /\ P' = r.P
        /\ branch' = r.nb
        /\ phase' = IF r.ok THEN "running" ELSE "error"
        /\ pc' = IF r.ok THEN "mate" ELSE "idle"
    /\ UNCHANGED <<config, pop, ideal, _decomposition, I, pos, off, infills, n_gen,
                   pop_gen, ideal_gen>>

\* off = self.mating.do(self.problem, pop, 1, parents=P)[0]; evaluator.eval(off)
SeqMate ==
    /\ phase = "running"
    /\ pc = "mate"
    /\ \E raw \in MatingDo(P) : off' = raw[1]
    /\ P' = <<>>
    /\ branch' = <<>>
    /\ pc' = "ideal"
    /\ UNCHANGED <<config, phase, pop, ideal, _decomposition, I, pos, infills, n_gen,
                   pop_gen, ideal_gen>>

\* mutant: the offspring does not enter the ideal point before the replacement
SeqIdealSkip ==
    /\ phase = "running"
    /\ pc = "ideal"
    /\ pc' = "replace"
    /\ UNCHANGED <<config, phase, pop, ideal, _decomposition, I, pos, P, branch, off, infills,
                   n_gen, pop_gen, ideal_gen>>

\* self.ideal = np.min(np.vstack([self.ideal, off.F]), axis=0)
SeqIdeal ==
    /\ phase = "running"
    /\ pc = "ideal"
    /\ ideal' = VecMin(ideal, off)
    /\ pc' = "replace"
    /\ UNCHANGED <<config, phase, pop, _decomposition, I, pos, P, branch, off, infills, n_gen,
                   pop_gen, ideal_gen>>

\* self._replace(i, off), and the loop goes to the next anchor or ends
SeqReplace ==
    /\ phase = "running"
    /\ pc = "replace"
    /\ pop' = _replace(I[pos], off)
    /\ pos' = IF pos < Len(I) THEN pos + 1 ELSE 0
    /\ pc' = IF pos < Len(I) THEN "select" ELSE "idle"
    /\ n_gen' = IF pos < Len(I) THEN n_gen ELSE n_gen + 1
    /\ off' = <<>>
    /\ UNCHANGED <<config, phase, ideal, _decomposition, I, P, branch, infills, pop_gen,
                   ideal_gen>>

\* ------------------------------------------------------------------ ParallelMOEAD
\* mutant: the first pop_size entries of the mating's output are taken
TaggedDense(raw, perm) ==
    [k \in 1..Len(perm) |-> [F |-> raw[k], i |-> perm[k]]]

\* off[np.arange(pop_size) * n_offsprings]; off.set("i", I)
Tagged(raw, perm) ==
    [k \in 1..Len(perm) |-> [F |-> raw[(k - 1) * n_offsprings + 1], i |-> perm[k]]]

\* ParallelMOEAD._infill, and the evaluation of the batch
_infill ==
    /\ MayAdvance
    /\ engine = "ParallelMOEAD"
    /\ \E perm \in Perms(DOMAIN pop) :
        \E r \in _do(PopLen, n_parents, perm) :
            /\ I' = perm
            /\ P' = r.P
            /\ branch' = r.nb
            /\ phase' = IF r.ok THEN "running" ELSE "error"
            /\ pc' = IF r.ok THEN "advance" ELSE "idle"
            /\ IF r.ok
               THEN \E raw \in MatingDo(r.P) : infills' = Tagged(raw, perm)
               ELSE infills' = <<>>
    /\ pop_gen' = pop
    /\ ideal_gen' = ideal
    /\ UNCHANGED <<config, pop, ideal, _decomposition, pos, off, n_gen>>

\* mutant: only the first offspring of the batch enters the ideal point
BatchFirst(z, batch, n) == IF n = 0 THEN z ELSE VecMin(z, batch[1].F)

\* np.min(np.vstack([self.ideal, infills.get("F")]), axis=0)
RECURSIVE BatchMin(_, _, _)
BatchMin(z, batch, n) ==
    IF n = 0 THEN z ELSE VecMin(BatchMin(z, batch, n - 1), batch[n].F)

\* ParallelMOEAD._advance: the ideal point is updated before the replacements
ParIdeal ==
    /\ phase = "running"
    /\ pc = "advance"
    /\ ideal' = BatchMin(ideal, infills, Len(infills))
    /\ pos' = 1
    /\ pc' = "batch_replace"
    /\ UNCHANGED <<config, phase, pop, _decomposition, I, P, branch, off, infills, n_gen,
                   pop_gen, ideal_gen>>

\* ParallelMOEAD._advance: for off in infills: self._replace(off.get("i"), off)
ParReplace ==
    /\ phase = "running"
    /\ pc = "batch_replace"
    /\ pop' = _replace(infills[pos].i, infills[pos].F)
    /\ pos' = IF pos < Len(infills) THEN pos + 1 ELSE 0
    /\ pc' = IF pos < Len(infills) THEN "batch_replace" ELSE "idle"
    /\ n_gen' = IF pos < Len(infills) THEN n_gen ELSE n_gen + 1
    /\ infills' = IF pos < Len(infills) THEN infills ELSE <<>>
    /\ P' = IF pos < Len(infills) THEN P ELSE <<>>
    /\ branch' = IF pos < Len(infills) THEN branch ELSE <<>>
    /\ UNCHANGED <<config, phase, ideal, _decomposition, I, off, pop_gen, ideal_gen>>

\* ------------------------------------------------------------------ selection alone
\* NeighborhoodSelection._do applied to a batch k of n_select anchors
SelectionDo ==
    /\ phase = "initialized"
    /\ \E n_select \in 1..PopLen :
        \E k \in Arrangements(DOMAIN pop, n_select) :
            \E r \in _do(n_select, n_parents, k) :
                /\ I' = k
                /\ P' = r.P
                /\ branch' = r.nb
                /\ phase' = IF r.ok THEN "selected" ELSE "error"
    /\ UNCHANGED <<config, pc, pop, ideal, _decomposition, pos, off, infills, n_gen,
                   pop_gen, ideal_gen>>

\* ------------------------------------------------------------------ specification
\* n_neighbors=20, the default of MOEAD.__init__
DefaultNeighbors == 20

\* the problems with n objectives, with and without constraints, whose
\* objective vectors are those of R
ProblemsOf(n, R) == {[n_obj |-> n, has_constraints |-> c, range |-> R] : c \in BOOLEAN}

Problems == ProblemsOf(2, FSpace(2, MaxF))

Init ==
    \/ Construct({"MOEAD"}, {EvenDirs(MaxM)}, {1, 2, DefaultNeighbors}, {1},
                 {Name("auto"), Instance("weighted-sum")}, {<<2, 2>>}, {"clone", "vary"},
                 Problems)
    \/ Construct({"ParallelMOEAD"}, {EvenDirs(MaxBatchM)}, {1, DefaultNeighbors}, {1},
                 {Name("auto"), Instance("weighted-sum")}, {<<2, 2>>}, {"vary"}, Problems)

Next ==
    \/ _setup
    \/ Initialize
    \/ _post_initialize
    \/ SeqPermute
    \/ SeqSelect
    \/ SeqMate
    \/ SeqIdeal
    \/ SeqReplace
    \/ _infill
    \/ ParIdeal
    \/ ParReplace

Spec == Init /\ [][Next]_vars

\* the sequential engine with a mating that clones the first parent: 2 objectives,
\* 5 evenly spaced directions, K = 3, neighbour-mating probability 1 or 0
CloneRange == {<<0, 1>>, <<1, 0>>}

\* the table of a sort that keeps equal distances in index order (what numpy's
\* sort does on rows this short); with these directions and K = 3 every table the
\* sort can produce has the same set of neighbours in each row
StableRows(t) ==
    \A i \in DOMAIN t : \A a, b \in DOMAIN t[i] :
        (a < b /\ cdist(ref_dirs, i, t[i][a]) = cdist(ref_dirs, i, t[i][b]))
            => t[i][a] < t[i][b]

InitClone ==
    /\ Construct({"MOEAD"}, {EvenDirs(5)}, {3}, {0, ProbDen}, {Name("auto")}, {<<2, 2>>},
                 {"clone"},
                 {[n_obj |-> 2, has_constraints |-> FALSE, range |-> CloneRange]})
    /\ StableRows(neighbors)

NextSeq ==
    \/ _setup
    \/ Initialize
    \/ _post_initialize
    \/ SeqPermute
    \/ SeqSelect
    \/ SeqMate
    \/ SeqIdeal
    \/ SeqReplace

SpecClone == InitClone /\ [][NextSeq]_vars

\* setup and runs for problems of 1..MaxObj objectives and every way of giving the
\* decomposition: by name, "auto" included, or as an object
MaxObj == 3

Decompositions ==
    {Name(n) : n \in {"auto", "tchebi", "pbi", "weighted-sum"}}
        \cup {Instance(n) : n \in {"tchebi", "pbi", "weighted-sum"}}

\* objective vectors of an n-objective problem: all ones, and zero in one coordinate
AxisRange(n) ==
    {[j \in 1..n |-> 1]} \cup {[j \in 1..n |-> IF j = a THEN 0 ELSE 1] : a \in 1..n}

InitSetup ==
    \E n \in 1..MaxObj :
        Construct({"MOEAD", "ParallelMOEAD"}, {UnitDirs(n, 2)}, {2}, {1}, Decompositions,
                  {<<2, 2>>}, {"vary"}, ProblemsOf(n, AxisRange(n)))

SpecSetup == InitSetup /\ [][Next]_vars

\* the mating selection as a function: populations of 1..MaxSelect individuals,
\* every neighbourhood size, 1..MaxSelect parents per request, and
\* neighbour-mating probabilities 0, .., 1
MaxSelect == 3

InitSelection ==
    Construct({"MOEAD"}, {EvenDirs(m) : m \in 1..MaxSelect}, 1..MaxSelect, 0..ProbDen,
              {Name("auto")}, {<<c, c>> : c \in 1..MaxSelect}, {"clone"},
              {[n_obj |-> 2, has_constraints |-> FALSE, range |-> {<<0, 0>>}]})

NextSelection ==
    \/ _setup
    \/ Initialize
    \/ SelectionDo

SpecSelection == InitSelection /\ [][NextSelection]_vars

\* the initialization alone, with objective values 0..MaxIdealF
MaxIdealF == 5

InitIdeal ==
    Construct({"MOEAD", "ParallelMOEAD"}, {EvenDirs(3)}, {2}, {1}, {Name("auto")},
              {<<2, 2>>}, {"vary"}, ProblemsOf(2, FSpace(2, MaxIdealF)))

NextIdeal ==
    \/ _setup
    \/ Initialize
    \/ _post_initialize

SpecIdeal == InitIdeal /\ [][NextIdeal]_vars

\* the construction of the neighbour table, for every set of up to MaxDirs
\* directions with coordinates in 0..MaxW (equal directions included) and every
\* requested neighbourhood size 1..MaxDirs+1
MaxDirs == 3

MaxW == 1

DirVectors == FSpace(2, MaxW) \ {<<0, 0>>}

DirSets == UNION {[0..(m - 1) -> DirVectors] : m \in 1..MaxDirs}

InitNeighbors ==
    Construct({"MOEAD"}, DirSets, 1..(MaxDirs + 1), {1}, {Name("auto")}, {<<2, 2>>},
              {"vary"}, ProblemsOf(2, FSpace(2, MaxF)))

SpecNeighbors == InitNeighbors /\ [][_setup]_vars

\* the batched engine alone, every request taking the neighbour branch: 2
\* directions with objective values 0..MaxBatchF, and 3 directions with K = 2 and
\* objective values 0..1
MaxBatchF == 2

InitBatch ==
    \/ Construct({"ParallelMOEAD"}, {EvenDirs(2)}, {2}, {ProbDen},
                 {Name("auto"), Instance("weighted-sum")}, {<<2, 2>>}, {"vary"},
                 {[n_obj |-> 2, has_constraints |-> FALSE, range |-> FSpace(2, MaxBatchF)]})
    \/ Construct({"ParallelMOEAD"}, {EvenDirs(3)}, {2}, {ProbDen}, {Name("auto")},
                 {<<2, 1>>}, {"vary"},
                 {[n_obj |-> 2, has_constraints |-> FALSE, range |-> FSpace(2, 1)]})

NextBatch ==
    \/ _setup
    \/ Initialize
    \/ _post_initialize
    \/ _infill
    \/ ParIdeal
    \/ ParReplace

SpecBatch == InitBatch /\ [][NextBatch]_vars

\* both engines with a mating that clones its parents, 3 directions with K = 2,
\* crossovers of 1 and 2 offspring per mating, neighbour-mating probabilities
\* 0, .., 1
AnchorRange == {<<0, 1>>, <<1, 0>>, <<1, 1>>}

InitAnchor ==
    Construct({"MOEAD", "ParallelMOEAD"}, {EvenDirs(3)}, {2}, 0..ProbDen, {Name("auto")},
              {<<2, 1>>, <<2, 2>>}, {"clone"},
              {[n_obj |-> 2, has_constraints |-> FALSE, range |-> AnchorRange]})

SpecAnchor == InitAnchor /\ [][Next]_vars

\* ------------------------------------------------------------------ properties
\* the scalarized value of objective vector F for subproblem n, under n's weight
\* vector and the ideal point of the current state
Scalar(F, n) == DecompositionDo(_decomposition, F, ref_dirs[n], ideal)

\* C1: once set, the ideal point keeps its length and no step of either engine
\* raises any of its coordinates
IdealNonIncreasing ==
    [][ideal # <<>> =>
        /\ DOMAIN ideal' = DOMAIN ideal
        /\ \A j \in DOMAIN ideal : ideal'[j] <= ideal[j]]_vars

\* C1 witness: an update of the generation has lowered a coordinate
IdealLowered ==
    /\ phase = "running"
    /\ ideal_gen # <<>>
    /\ \E j \in DOMAIN ideal : ideal[j] < ideal_gen[j]

\* what the replacement step anchored at i with offspring o does to the slots of
\* the neighbour row of i
ReplacedIff(i, o) ==
    \A n \in Range(neighbors[i]) :
        pop'[n] = IF Scalar(o, n) < Scalar(pop[n], n) THEN o ELSE pop[n]

\* C2: a replacement step of either engine overwrites the slot of a neighbour n
\* of the anchor with the offspring exactly when the offspring's scalarized
\* value under n's weights and the ideal point is strictly less than the
\* incumbent's; otherwise (ties included) the incumbent stays
StrictReplacement ==
    [][/\ pc = "replace" => ReplacedIff(I[pos], off)
       /\ pc = "batch_replace" => ReplacedIff(infills[pos].i, infills[pos].F)]_vars

\* C2 witness: the replacement step of the first anchor has overwritten two
\* neighbours with the same offspring and kept a third
ReplacedTwoKeptOne ==
    /\ pc = "select"
    /\ pos = 2
    /\ \E n, m, q \in Range(neighbors[I[1]]) :
        /\ n # m
        /\ pop[n] # pop_gen[n]
        /\ pop[m] # pop_gen[m]
        /\ pop[n] = pop[m]
        /\ pop[q] = pop_gen[q]

\* C5: from the initialization on, the population has one slot per reference
\* direction and the neighbour table one row per reference direction
PopulationSizeFixed ==
    phase \in {"initialized", "running", "error"} =>
        /\ DOMAIN pop = DOMAIN ref_dirs
        /\ DOMAIN neighbors = DOMAIN ref_dirs
        /\ PopLen = Cardinality(DOMAIN ref_dirs)

\* C5 witness: a generation has ended and its replacement steps changed slots
GenerationReplaced ==
    /\ phase = "running"
    /\ n_gen = 1
    /\ pop # pop_gen

\* a generation has run to its end
GenerationDone == phase = "running" /\ pc = "idle" /\ n_gen >= 1

\* C3 as claimed: with a mating that clones the first parent, one full sequential
\* generation leaves every population slot as it was before the generation
CloneGenerationUnchanged == GenerationDone => pop = pop_gen

\* C3 amended: the generation leaves the ideal point as it was, and every slot
\* either as it was or holding a copy of a member of the pre-generation
\* population whose scalarized value for that slot is strictly less than that of
\* the slot's pre-generation individual
CloneGenerationImproves ==
    GenerationDone =>
        /\ ideal = ideal_gen
        /\ \A n \in DOMAIN pop :
            \/ pop[n] = pop_gen[n]
            \/ /\ \E m \in DOMAIN pop_gen : pop[n] = pop_gen[m]
               /\ Scalar(pop[n], n) < Scalar(pop_gen[n], n)

\* C3 witness: a generation of clones has ended with a slot overwritten
CloneReplaced == GenerationDone /\ mating = "clone" /\ pop # pop_gen

\* C4 as claimed: every row of the neighbour table has K = min(M, n_neighbors)
\* entries, contains its own index, and lists its entries by non-decreasing
\* distance to the row's direction
NeighborRowsSelfSorted ==
    /\ n_neighbors = Min2(Cardinality(DOMAIN ref_dirs), n_neighbors_arg)
    /\ DOMAIN neighbors = DOMAIN ref_dirs
    /\ \A i \in DOMAIN neighbors :
        /\ Len(neighbors[i]) = n_neighbors
        /\ i \in Range(neighbors[i])
        /\ \A a \in 1..(Len(neighbors[i]) - 1) :
            cdist(ref_dirs, i, neighbors[i][a]) <= cdist(ref_dirs, i, neighbors[i][a + 1])

\* request a of the batch had enough candidates for n_parents distinct parents
EnoughCandidates(a) ==
    IF branch[a] THEN n_parents <= Len(neighbors[I[a]]) ELSE n_parents <= PopLen

\* C6: every request with enough candidates gets n_parents pairwise distinct
\* population indices, all from the neighbour row of its anchor when its draw
\* took the neighbour branch and all from 0..M-1 otherwise; with probability 1
\* every request takes the neighbour branch, with probability 0 none does
ParentsDistinctOneSource ==
    phase = "selected" =>
        /\ Len(P) = Len(I)
        /\ \A a \in DOMAIN P :
            EnoughCandidates(a) =>
                /\ Len(P[a]) = n_parents
                /\ \A x, y \in DOMAIN P[a] : P[a][x] = P[a][y] => x = y
                /\ Range(P[a]) \subseteq
                     (IF branch[a] THEN Range(neighbors[I[a]]) ELSE DOMAIN pop)
        /\ prob_neighbor_mating = ProbDen => \A a \in DOMAIN P : branch[a]
        /\ prob_neighbor_mating = 0 => \A a \in DOMAIN P : ~branch[a]

\* C6 witness: two requests of one batch took different branches, and the one of
\* the whole-population branch has a parent outside its anchor's neighbour row
BatchMixedBranches ==
    /\ phase = "selected"
    /\ n_parents >= 2
    /\ \E a, b \in DOMAIN P :
        /\ branch[a]
        /\ ~branch[b]
        /\ ~(Range(P[b]) \subseteq Range(neighbors[I[b]]))

\* the population of the scenario: objective vectors (1,5), (3,2), (4,4)
ScenarioPop == [i \in 0..2 |-> <<<<1, 5>>, <<3, 2>>, <<4, 4>>>>[i + 1]]

\* C7: the ideal point is unset before _post_initialize and is, right after it,
\* the coordinate-wise minimum of the initial population's objective vectors;
\* for the scenario's population it is (1,2)
IdealIsInitialMinimum ==
    /\ phase \in {"constructed", "setup", "initialized", "failed"} => ideal = <<>>
    /\ (phase = "running" /\ n_gen = 0 /\ pc = "idle") =>
        /\ DOMAIN ideal = 1..problem.n_obj
        /\ \A j \in DOMAIN ideal :
            /\ \A i \in DOMAIN pop : ideal[j] <= pop[i][j]
            /\ \E i \in DOMAIN pop : ideal[j] = pop[i][j]
        /\ pop = ScenarioPop => ideal = <<1, 2>>

\* C7 witness: the run has been initialized from the scenario's population
ScenarioInitialized == phase = "running" /\ pop = ScenarioPop /\ ideal = <<1, 2>>

\* C8: a problem with constraints never gets past _setup: the run is constructed
\* or failed, with no population, no ideal point, no decomposition and no
\* generation step; a problem without constraints never fails in _setup
ConstraintsRejected ==
    /\ problem.has_constraints =>
        /\ phase \in {"constructed", "failed"}
        /\ pop = <<>>
        /\ ideal = <<>>
        /\ _decomposition = NoDecomposition
        /\ pc = "idle"
        /\ n_gen = 0
    /\ ~problem.has_constraints => phase # "failed"

\* C8 witness: _setup has failed on a problem with constraints
SetupFailed == phase = "failed" /\ problem.has_constraints

\* the decomposition the option stands for
Chosen ==
    IF decomposition.kind = "obj" THEN decomposition
    ELSE IF decomposition.val = "auto"
         THEN Instance(IF problem.n_obj <= 2 THEN "tchebi" ELSE "pbi")
         ELSE Instance(decomposition.val)

\* C9: from _post_initialize on, in every state of the run, the scalarizer is the
\* one the option stands for: Tchebycheff for "auto" with at most 2 objectives,
\* PBI for "auto" with more, the named one for another name, the object itself
\* when an object was given; before, none is set
DecompositionResolved ==
    _decomposition = IF phase \in {"running", "error"} THEN Chosen ELSE NoDecomposition

\* C9 witness: "auto" has resolved to PBI for a problem with 3 objectives
AutoResolvedPbi ==
    /\ phase = "running"
    /\ decomposition = Name("auto")
    /\ problem.n_obj = 3
    /\ _decomposition = Instance("pbi")

\* C10: the steps of the sequential engine for one anchor run in the order
\* selection, mating, ideal-point update, replacement, and then the next anchor's
\* selection.  Selection and mating change neither the population nor the ideal
\* point, and a cloning mating copies its first parent from the population of
\* that moment; the update takes the offspring into the ideal point before the
\* replacement; the replacement compares with the incumbents and the ideal point
\* of that moment, and leaves every other slot, the earlier replacements
\* included, as it is
SequentialOrder ==
    [][/\ pc = "select" =>
            /\ pc' \in {"mate", "idle"}
            /\ pc' = "idle" => phase' = "error"
            /\ pop' = pop
            /\ ideal' = ideal
       /\ pc = "mate" =>
            /\ pc' = "ideal"
            /\ pop' = pop
            /\ ideal' = ideal
            /\ mating = "clone" => off' = pop[P[1][1]]
       /\ pc = "ideal" =>
            /\ pc' = "replace"
            /\ pop' = pop
            /\ off' = off
            /\ \A j \in DOMAIN ideal : ideal'[j] = Min2(ideal[j], off[j])
       /\ pc = "replace" =>
            /\ \A j \in DOMAIN ideal : ideal[j] <= off[j]
            /\ ideal' = ideal
            /\ ReplacedIff(I[pos], off)
            /\ \A n \in DOMAIN pop \ Range(neighbors[I[pos]]) : pop'[n] = pop[n]
            /\ I' = I
            /\ IF pos < Len(I)
               THEN pc' = "select" /\ pos' = pos + 1
               ELSE pc' = "idle" /\ n_gen' = n_gen + 1]_vars

\* C10 witness: the second anchor is about to replace, in a population the first
\* anchor's replacement changed and under an ideal point the first anchor's
\* offspring lowered
LaterAnchorSeesEarlier ==
    /\ engine = "MOEAD"
    /\ pc = "replace"
    /\ pos = 2
    /\ pop # pop_gen
    /\ \E j \in DOMAIN ideal : ideal[j] < ideal_gen[j] /\ ideal[j] < off[j]

\* C11: in the batched engine the ideal point changes in one step of a
\* generation only, the one before the first replacement step: that step sets
\* every coordinate to the least of its old value and the values of all
\* offspring of the batch; the selection-and-mating step and every replacement
\* step leave it as it is, so that all replacement steps of the batch compare
\* under the same ideal point
BatchIdealOnce ==
    [][(engine = "ParallelMOEAD" /\ phase = "running") =>
        /\ pc = "idle" => ideal' = ideal
        /\ pc = "advance" =>
            /\ pc' = "batch_replace"
            /\ pos' = 1
            /\ pop' = pop
            /\ pop = pop_gen
            /\ ideal = ideal_gen
            /\ \A j \in DOMAIN ideal :
                ideal'[j] = SetMin({ideal[j]} \cup {infills[b].F[j] : b \in DOMAIN infills})
        /\ pc = "batch_replace" =>
            /\ ideal' = ideal
            /\ \A j \in DOMAIN ideal :
                ideal[j] = SetMin({ideal_gen[j]} \cup {infills[b].F[j] : b \in DOMAIN infills})]_vars

\* C11 witness: the second replacement step of a batch is due, the first has
\* changed the population, and the ideal point was lowered by the second
\* offspring alone
BatchIdealFromLater ==
    /\ pc = "batch_replace"
    /\ pos = 2
    /\ pop # pop_gen
    /\ \E j \in DOMAIN ideal :
        /\ infills[2].F[j] < ideal_gen[j]
        /\ ideal[j] = infills[2].F[j]
        /\ ideal[j] < infills[1].F[j]

\* C12 as claimed: a replacement step of the batch compares the offspring, at
\* every slot of its anchor's neighbour row, with the individual that held the
\* slot when the batch began, whatever earlier offspring of the batch did to it
BatchIncumbentFrozen ==
    [][pc = "batch_replace" =>
        \A n \in Range(neighbors[infills[pos].i]) :
            pop'[n] = IF Scalar(infills[pos].F, n) < Scalar(pop_gen[n], n)
                      THEN infills[pos].F
                      ELSE pop[n]]_vars

\* offspring b of the batch could have been written to slot n by its step
EarlierWrote(b, n) ==
    /\ n \in Range(neighbors[infills[b].i])
    /\ pop[n] = infills[b].F

\* C12 amended: the batch is selected and mated from the population as it was
\* when the batch began, but a replacement step compares the offspring with
\* the individual that holds the slot at that step: the one of the batch's
\* start, or an earlier offspring of the same batch that took the slot, whose
\* replacement is thus visible to the later offspring of the batch
BatchIncumbentCurrent ==
    [][/\ pc = "advance" => pop = pop_gen
       /\ pc = "batch_replace" =>
            /\ \A n \in DOMAIN pop :
                \/ pop[n] = pop_gen[n]
                \/ \E b \in 1..(pos - 1) : EarlierWrote(b, n)
            /\ \A n \in Range(neighbors[infills[pos].i]) :
                pop'[n] = IF Scalar(infills[pos].F, n) < Scalar(pop[n], n)
                          THEN infills[pos].F
                          ELSE pop[n]]_vars

\* C12 witness: the second offspring of a batch is compared at a slot the first
\* offspring took; it beats the slot's individual of the batch's start but not
\* the first offspring
BatchLaterMeetsEarlier ==
    /\ pc = "batch_replace"
    /\ pos = 2
    /\ \E n \in Range(neighbors[infills[2].i]) :
        /\ pop[n] # pop_gen[n]
        /\ EarlierWrote(1, n)
        /\ infills[2].F # pop[n]
        /\ Scalar(infills[2].F, n) < Scalar(pop_gen[n], n)
        /\ ~(Scalar(infills[2].F, n) < Scalar(pop[n], n))

\* the offspring of the batch that qualify for slot n: n is in the neighbour row
\* of their anchor, and their scalarized value is strictly less than that of
\* the individual that held n when the batch began
Qualify(n) ==
    {b \in DOMAIN infills :
        /\ n \in Range(neighbors[infills[b].i])
        /\ Scalar(infills[b].F, n) < Scalar(pop_gen[n], n)}

\* the last replacement step of a batch is being taken
LastOfBatch == pc = "batch_replace" /\ pos = Len(infills)

\* C13 as claimed: a slot for which two or more offspring of the batch qualify
\* ends the generation holding the one that comes last in the batch order
BatchLastWriteWins ==
    [][LastOfBatch =>
        \A n \in DOMAIN pop :
            Cardinality(Qualify(n)) >= 2 => pop'[n] = infills[SetMax(Qualify(n))].F]_vars

\* the first, in batch order, of the qualifying offspring of least scalarized
\* value for slot n
FirstLeast(n) ==
    SetMin({b \in Qualify(n) :
              \A c \in Qualify(n) : Scalar(infills[b].F, n) <= Scalar(infills[c].F, n)})

\* C13 amended: the replacements are applied in batch order, each compared with
\* the slot's holder of that moment, so a later qualifying offspring takes the
\* slot from an earlier one only with a strictly smaller scalarized value: the
\* slot ends the generation holding the qualifying offspring of least
\* scalarized value, the earliest in batch order among equal ones, and its
\* individual of the batch's start when no offspring qualifies
BatchLeastValueWins ==
    [][LastOfBatch =>
        \A n \in DOMAIN pop :
            pop'[n] = IF Qualify(n) = {} THEN pop_gen[n] ELSE infills[FirstLeast(n)].F]_vars

\* C13 witness: at the last step of a batch some slot has two qualifying
\* offspring of equal scalarized value and holds the earlier one, and some slot
\* has two qualifying offspring of which the later has the smaller value
BatchTwoQualify ==
    /\ LastOfBatch
    /\ \E n \in DOMAIN pop : \E a, b \in Qualify(n) :
        /\ a < b
        /\ b = pos
        /\ infills[a].F # infills[b].F
        /\ Scalar(infills[a].F, n) = Scalar(infills[b].F, n)
        /\ pop[n] = infills[a].F
    /\ \E n \in DOMAIN pop : \E a, b \in Qualify(n) :
        /\ a < b
        /\ b = pos
        /\ Scalar(infills[b].F, n) < Scalar(infills[a].F, n)
        /\ pop[n] = infills[a].F

\* the slots a step changes are slots of the neighbour row of anchor i, and
\* they receive the offspring o
ReplacesInRow(i, o) ==
    \A n \in DOMAIN pop :
        pop'[n] # pop[n] => (n \in Range(neighbors[i]) /\ pop'[n] = o)

\* request a of the selection was made for anchor i
SelectedFor(a, i) ==
    /\ Len(P[a]) = n_parents
    /\ branch[a] => Range(P[a]) \subseteq Range(neighbors[i])

ParentShortageFatal ==
    phase = "selected" =>
        \A a \in DOMAIN P :
            /\ EnoughCandidates(a)
            /\ \A x, y \in DOMAIN P[a] : P[a][x] = P[a][y] => x = y

\* C15, populations of two or more: the same statement holds
ParentShortageFatalFromTwo == PopLen >= 2 => ParentShortageFatal

\* C16: in every state of a run of either engine, from _post_initialize on, no
\* coordinate of the ideal point exceeds that coordinate of the objective
\* vector of any individual of the population
IdealBoundsPopulation ==
    phase \in {"running", "error"} =>
        /\ DOMAIN ideal = 1..problem.n_obj
        /\ \A n \in DOMAIN pop : \A j \in DOMAIN ideal : ideal[j] <= pop[n][j]

\* C16 witness: a generation has put into the population an offspring that is
\* below the generation's first ideal point in a coordinate, and the ideal point
\* has that coordinate's value
OffspringBelowOldIdeal ==
    /\ phase = "running"
    /\ n_gen = 1
    /\ \E n \in DOMAIN pop : \E j \in DOMAIN ideal :
        /\ pop[n] # pop_gen[n]
        /\ pop[n][j] < ideal_gen[j]
        /\ ideal[j] = pop[n][j]

\* C17: a replacement step of either engine changes no population slot outside
\* the neighbour row of its anchor, and leaves the ideal point, the neighbour
\* table and the reference directions as they are; from the construction on, no
\* step of either engine changes the neighbour table or the reference directions
ReplaceFrame ==
    [][/\ neighbors' = neighbors
       /\ ref_dirs' = ref_dirs
       /\ pc = "replace" =>
            /\ ideal' = ideal
            /\ \A n \in DOMAIN pop \ Range(neighbors[I[pos]]) : pop'[n] = pop[n]
            /\ DOMAIN pop' = DOMAIN pop
       /\ pc = "batch_replace" =>
            /\ ideal' = ideal
            /\ \A n \in DOMAIN pop \ Range(neighbors[infills[pos].i]) : pop'[n] = pop[n]
            /\ DOMAIN pop' = DOMAIN pop]_vars

\* C17 witness: the replacement step of the first anchor has overwritten a slot
\* of the anchor's row and kept a slot outside the row whose individual the
\* offspring beats under that slot's weights
OutsideRowKept ==
    /\ engine = "MOEAD"
    /\ pc = "select"
    /\ pos = 2
    /\ \E m \in Range(neighbors[I[1]]) : \E n \in DOMAIN pop \ Range(neighbors[I[1]]) :
        /\ pop[m] # pop_gen[m]
        /\ pop[n] = pop_gen[n]
        /\ Scalar(pop[m], n) < Scalar(pop[n], n)

====
